---- MODULE Spec2Model ----
(***************************************************************************)
(* Model of split_agreement.py: the AgreementSplitter pipeline that scans  *)
(* the pages of a labor agreement for section headers, builds and merges   *)
(* page ranges, writes an analysis report and splits the PDF into files.   *)
(***************************************************************************)
EXTENDS Integers, Sequences, FiniteSets, TLC

(***************************************************************************)
(* Bounds of the model.                                                    *)
(***************************************************************************)
\* longest page text (in raw lines) given to detect_section on its own
MaxLines == 4
\* longest document (in pages) of the enumerated documents
MaxPages == 4
\* largest min_pages setting tried
MaxMinPages == 3
\* longest arbitrary Section list given to merge_sections on its own
MaxSections == 3
MaxFiles == 2

(***************************************************************************)
(* Program constants.                                                      *)
(***************************************************************************)
\* detect_section: get_key_lines(text, 3)
KeyLineCount == 3
\* detect_section: lines[:2]
ExaminedLines == 2
\* detect_section: base_confidence - 10 when not in first line
LinePenalty == 10
\* find_all_sections: confidence >= 80
AcceptThreshold == 80
\* build_sections: confidence of the Complete_Agreement section
FallbackConfidence == 50
\* __init__: merge_threshold default
DefaultMergeThreshold == 5
DefaultMinPages == 2

Min(a, b) == IF a <= b THEN a ELSE b
Max(a, b) == IF a >= b THEN a ELSE b

\* Python's None, and the empty tuple that stands for it where a tuple is expected
None == <<>>

(***************************************************************************)
(* Page text.  A page's text is modelled as the sequence of its raw lines  *)
(* (what text.split('\n') yields).  Lines are drawn from LineUniverse; the *)
(* string functions the code applies to a line are tabulated on it.        *)
(***************************************************************************)
LineUniverse ==
    { "", "12", "No", "  SOMMAIRE  ", "Table des matieres",
      "LETTRE D'ENTENTE NO 4", "Annexe I : Horaires", "CHAPITRE 2 - Conges",
      "En foi de quoi", "Convention collective", "Voir ANNEXE A - Salaires" }

\* str.strip()
strip(line) ==
    IF line = "  SOMMAIRE  " THEN "SOMMAIRE" ELSE line

\* str.isdigit()
isdigit(s) == s \in {"12"}

\* str.upper(), on stripped lines
upper(s) ==
    CASE s = "Table des matieres"       -> "TABLE DES MATIERES"
      [] s = "Annexe I : Horaires"      -> "ANNEXE I : HORAIRES"
      [] s = "CHAPITRE 2 - Conges"      -> "CHAPITRE 2 - CONGES"
      [] s = "En foi de quoi"           -> "EN FOI DE QUOI"
      [] s = "Convention collective"    -> "CONVENTION COLLECTIVE"
      [] s = "Voir ANNEXE A - Salaires" -> "VOIR ANNEXE A - SALAIRES"
      [] s = "No"                       -> "NO"
      [] OTHER                          -> s

\* line[:80]: every line of LineUniverse is shorter than 80 characters, so the
\* slice keeps the whole line
Head80(line) == line

(***************************************************************************)
(* PATTERNS: the catalog, in dict order; each rule is named by its         *)
(* position and carries its base confidence.                               *)
(***************************************************************************)
PATTERNS ==
    << [type |-> "TOC",
        patterns |-> << [rule |-> "TOC_1", base |-> 100],
                        [rule |-> "TOC_2", base |-> 95] >>],
       [type |-> "Lettres_Entente",
        patterns |-> << [rule |-> "LET_1", base |-> 100],
                        [rule |-> "LET_2", base |-> 95],
                        [rule |-> "LET_3", base |-> 90] >>],
       [type |-> "Annexe",
        patterns |-> << [rule |-> "ANX_1", base |-> 100],
                        [rule |-> "ANX_2", base |-> 100],
                        [rule |-> "ANX_3", base |-> 100],
                        [rule |-> "ANX_4", base |-> 95] >>],
       [type |-> "Articles",
        patterns |-> << [rule |-> "ART_1", base |-> 95],
                        [rule |-> "ART_2", base |-> 95] >>],
       [type |-> "Signatures",
        patterns |-> << [rule |-> "SIG_1", base |-> 90],
                        [rule |-> "SIG_2", base |-> 85] >> ] >>

\* re.search(pattern, line_upper) on the upper-cased lines of LineUniverse
re_search(rule, line_upper) ==
    <<rule, line_upper>> \in
        { <<"TOC_1", "TABLE DES MATIERES">>,
          <<"TOC_2", "SOMMAIRE">>,
          <<"LET_1", "LETTRE D'ENTENTE NO 4">>,
          <<"LET_2", "LETTRE D'ENTENTE NO 4">>,
          <<"ANX_1", "ANNEXE I : HORAIRES">>,
          <<"ANX_2", "ANNEXE I : HORAIRES">>,
          <<"ART_1", "CHAPITRE 2 - CONGES">>,
          <<"SIG_2", "EN FOI DE QUOI">> }

\* get_key_lines: the first max_lines significant lines of the text
RECURSIVE KeyLinesFrom(_, _, _, _)
KeyLinesFrom(text, i, lines, max_lines) ==
    IF i > Len(text) THEN lines
    ELSE LET cleaned == strip(text[i])
         IN IF cleaned # "" /\ ~isdigit(cleaned) /\ Len(cleaned) > 2
            THEN IF Len(lines) + 1 >= max_lines
                 THEN Append(lines, cleaned)
                 ELSE KeyLinesFrom(text, i + 1, Append(lines, cleaned), max_lines)
            ELSE KeyLinesFrom(text, i + 1, lines, max_lines)

get_key_lines(text, max_lines) == KeyLinesFrom(text, 1, <<>>, max_lines)

\* for pattern, base_confidence in patterns: the first rule from k on that matches
RECURSIVE FirstPattern(_, _, _)
FirstPattern(patterns, k, line_upper) ==
    IF k > Len(patterns) THEN 0
    ELSE IF re_search(patterns[k].rule, line_upper) THEN k
         ELSE FirstPattern(patterns, k + 1, line_upper)

\* for section_type, patterns in self.PATTERNS.items(): first type from c on
\* with a matching rule; returns the detection tuple or None
RECURSIVE TryTypes(_, _, _)
TryTypes(c, line, line_idx) ==
    IF c > Len(PATTERNS) THEN None
    ELSE LET k == FirstPattern(PATTERNS[c].patterns, 1, upper(line))
         IN IF k # 0
            THEN LET base_confidence == PATTERNS[c].patterns[k].base
                     confidence == IF line_idx = 0 THEN base_confidence
                                   ELSE base_confidence - LinePenalty
                 IN <<PATTERNS[c].type, confidence, Head80(line)>>
            ELSE TryTypes(c + 1, line, line_idx)

\* (variant: the loops are nested the other way round, types outside, lines inside)
RECURSIVE LinesOfType(_, _, _)
LinesOfType(c, examined, i) ==
    IF i > Len(examined) THEN None
    ELSE LET k == FirstPattern(PATTERNS[c].patterns, 1, upper(examined[i]))
         IN IF k # 0
            THEN <<PATTERNS[c].type,
                   IF i = 1 THEN PATTERNS[c].patterns[k].base
                   ELSE PATTERNS[c].patterns[k].base - LinePenalty,
                   Head80(examined[i])>>
            ELSE LinesOfType(c, examined, i + 1)

RECURSIVE TypesFirst(_, _)
TypesFirst(c, examined) ==
    IF c > Len(PATTERNS) THEN None
    ELSE LET found == LinesOfType(c, examined, 1)
         IN IF found # None THEN found ELSE TypesFirst(c + 1, examined)

TryLines_typesFirst(examined, i) == TypesFirst(1, examined)

\* for line_idx, line in enumerate(lines[:2])
RECURSIVE TryLines(_, _)
TryLines(examined, i) ==
    IF i > Len(examined) THEN None
    ELSE LET found == TryTypes(1, examined[i], i - 1)
         IN IF found # None THEN found ELSE TryLines(examined, i + 1)

\* (variant: every key line is looked at)
ExaminedOf_all(lines) == lines

\* the lines detect_section loops over
ExaminedOf(lines) == SubSeq(lines, 1, Min(ExaminedLines, Len(lines)))

detect_section(text, page_num) ==
    LET lines == get_key_lines(text, KeyLineCount)
    IN IF lines = <<>> THEN None
       ELSE TryLines(ExaminedOf(lines), 1)

VARIABLES
    input_dir,       \* batch_process: the directory input_dir names, as the file system has it
    case_sensitive,  \* whether Path.glob matches names case-sensitively on this platform
    batch_out,       \* batch_process: its output_dir argument ("" for None)
    pdfs,            \* batch_process: the list it loops over
    pdf_idx,         \* batch_process: position of pdf in pdfs (1-based)
    results,         \* batch_process: the list it returns
    summary,         \* batch_process: the figures it logs under BATCH PROCESSING SUMMARY
    bpc,             \* where batch_process stands ("single" when main runs one document)
    input_pdf,       \* self.input_pdf
    input_exists,    \* self.input_pdf.exists()
    out_arg,         \* __init__: its output_dir argument ("" for None)
    output_dir,      \* self.output_dir
    raised,          \* the exception that left __init__ ("" when none did)
    text,            \* detect run: the page text handed to detect_section
    detection,       \* detect run: what detect_section returned
    dpc,             \* detect run: "ready" before the call, "done" after
    pages,           \* self.reader.pages: the text of every page of the input
    min_pages,       \* self.min_pages
    merge_threshold, \* self.merge_threshold
    pc,              \* where process() stands
    page_num,        \* find_all_sections: loop variable
    markers,         \* find_all_sections: the list it collects and returns
    m_in,            \* merge_sections: its parameter
    current,         \* merge_sections: the accumulator
    next_idx,        \* merge_sections: position of next_sec in m_in (1-based)
    merged,          \* merge_sections: the list being built
    merge_runs,      \* the calls of merge_sections so far: argument and returned list
    sections,        \* process: the list build_sections returned
    report,          \* process: the entries create_report listed
    sec_idx,         \* split_pdf: position of sec in sections (1-based)
    counters,        \* split_pdf: count per type
    planned,         \* split_pdf: per section that passed the filter, its num and filename
    created,         \* split_pdf: the file paths written
    result,          \* what process() returned
    input_path,      \* gui: what the Input entry holds (self.input_path)
    batch_mode,      \* gui: self.batch_mode
    processing,      \* gui: self.processing
    process_btn,     \* gui: the state of self.process_btn
    progress,        \* gui: whether self.progress is running
    threads,         \* gui: every worker thread started: where it stands, how its run went
    after_queue,     \* gui: the callbacks handed to root.after and not yet run
    shown,           \* gui: the message boxes that are open
    mainloop,        \* gui: whether root.mainloop() is running
    ran              \* gui: the code that took the last step and the thread it ran on

batchVars == <<input_dir, case_sensitive, batch_out, pdfs, pdf_idx, results, summary, bpc>>
initVars == <<input_pdf, input_exists, out_arg, output_dir, raised>>
guiVars == <<input_path, batch_mode, processing, process_btn, progress, threads,
             after_queue, shown, mainloop, ran>>
envVars == <<batchVars, initVars, guiVars>>
detectVars == <<text, detection, dpc>>
docVars == <<pages, min_pages, merge_threshold>>
scanVars == <<page_num, markers>>
mergeVars == <<m_in, current, next_idx, merged, merge_runs>>
splitVars == <<sec_idx, counters, planned, created>>
vars == <<envVars, detectVars, docVars, pc, scanVars, mergeVars, sections, report, splitVars, result>>

\* the sequences over S of length at most n
SeqsUpTo(S, n) == UNION {[1..k -> S] : k \in 0..n}

TypeNames == {PATTERNS[c].type : c \in 1..Len(PATTERNS)} \cup {"Complete_Agreement"}

NoSection == [type |-> "", start_page |-> 0, end_page |-> 0, confidence |-> 0, header |-> ""]
\* a dict of process() or of the except branch of batch_process; a key the dict
\* does not have is held as "", 0 or the empty list
NoResult ==
    [success |-> FALSE, error |-> "", input_file |-> "", output_dir |-> "",
     sections_found |-> 0, files_created |-> 0, created_files |-> <<>>]

\* a Path: the directory it lies in, and the stem and suffix of its name
NoPath == [parent |-> "", stem |-> "", suffix |-> ""]

\* str(path)
PathStr(path) == path.parent \o "/" \o path.stem \o path.suffix

\* self.input_pdf.parent / f"{self.input_pdf.stem}_split"
DefaultOutputDir(path) == path.parent \o "/" \o path.stem \o "_split"

NoSummary == [processed |-> 0, successful |-> 0, failed |-> 0, total_files |-> 0]

\* the state of the parts of the program that are not running
IdleDetect == text = <<"">> /\ detection = None /\ dpc = "idle"
IdleDoc == pages = <<>> /\ min_pages = 0 /\ merge_threshold = 0
IdleScan == page_num = 0 /\ markers = <<>>
IdleMerge == m_in = <<>> /\ current = NoSection /\ next_idx = 0 /\ merged = <<>>
IdleSplit ==
    /\ sec_idx = 0
    /\ counters = [t \in TypeNames |-> 0]
    /\ planned = <<>>
    /\ created = <<>>
IdleProcess == sections = <<>> /\ report = <<>> /\ result = NoResult
IdleInit ==
    /\ input_pdf = NoPath
    /\ input_exists = FALSE
    /\ out_arg = ""
    /\ output_dir = ""
    /\ raised = ""
IdleGui ==
    /\ input_path = ""
    /\ batch_mode = FALSE
    /\ processing = FALSE
    /\ process_btn = "normal"
    /\ progress = FALSE
    /\ threads = <<>>
    /\ after_queue = <<>>
    /\ shown = {}
    /\ mainloop = FALSE
    /\ ran = [code |-> "", thread |-> ""]
IdleBatch ==
    /\ input_dir = [exists |-> FALSE, files |-> <<>>]
    /\ case_sensitive = TRUE
    /\ batch_out = ""
    /\ pdfs = <<>>
    /\ pdf_idx = 0
    /\ results = <<>>
    /\ summary = NoSummary

(***************************************************************************)
(* detect_section on its own, over every page text within the bounds.      *)
(***************************************************************************)
\* page texts: split('\n') always yields at least one line
Texts == SeqsUpTo(LineUniverse, MaxLines) \ {<<>>}

InitDetect ==
    /\ text \in Texts
    /\ detection = None
    /\ dpc = "ready"
    /\ pc = "idle"
    /\ IdleDoc /\ IdleScan /\ IdleMerge /\ merge_runs = <<>> /\ IdleSplit /\ IdleProcess
    /\ IdleInit /\ IdleBatch /\ bpc = "idle" /\ IdleGui

Detect ==
    /\ dpc = "ready"
    /\ detection' = detect_section(text, 0)
    /\ dpc' = "done"
    /\ UNCHANGED <<envVars, text, docVars, pc, scanVars, mergeVars, sections, report, splitVars, result>>

NextDetect == Detect

SpecDetect == InitDetect /\ [][NextDetect]_vars

(***************************************************************************)
(* The documents process() is run on.                                      *)
(***************************************************************************)
\* a page of running text: no line of it matches a rule at its start
BodyPage == <<"12", "Convention collective", "Voir ANNEXE A - Salaires">>
\* a table of contents header on the first line (TOC, 100)
TocPage == <<"Table des matieres">>
\* an appendix header on the first line (Annexe, 100)
AnnexePage == <<"Annexe I : Horaires", "Convention collective">>
\* an appendix header on the second line (Annexe, 90)
AnnexeSecondLinePage == <<"Convention collective", "Annexe I : Horaires">>
\* a signature formula on the second line (Signatures, 75: below the threshold)
SignatureSecondLinePage == <<"Convention collective", "En foi de quoi">>

PageTexts ==
    {BodyPage, TocPage, AnnexePage, AnnexeSecondLinePage, SignatureSecondLinePage}

\* Scenario A of the specification: ten pages, no header anywhere
ScenarioA == [p \in 1..10 |-> BodyPage]
\* Scenario B of the specification: twelve pages, headers on pages 0, 2 and 6
ScenarioB ==
    [p \in 1..12 |-> CASE p = 1 -> TocPage
                       [] p = 3 -> AnnexePage
                       [] p = 7 -> AnnexeSecondLinePage
                       [] OTHER -> BodyPage]

Documents == SeqsUpTo(PageTexts, MaxPages) \cup {ScenarioA, ScenarioB}

MergeThresholds == {0, 1, DefaultMergeThreshold}

\* len(self.reader.pages)
total_pages == Len(pages)

(***************************************************************************)
(* find_all_sections                                                       *)
(***************************************************************************)
\* (variant: the page is recorded by its 1-based number)
Marker_oneBased(det, pn) ==
    [type |-> det[1], page |-> pn + 1, confidence |-> det[2], header |-> det[3]]

\* the dict appended for an accepted detection
Marker(det, pn) ==
    [type |-> det[1], page |-> pn, confidence |-> det[2], header |-> det[3]]

\* (variant: every detection is accepted, whatever its confidence)
Accepted_anyDetection(det) == det # None

\* if detection: ... if confidence >= 80
Accepted(det) == det # None /\ det[2] >= AcceptThreshold

\* the path main() is given in single-file mode
SingleInput == [parent |-> ".", stem |-> "agreement", suffix |-> ".pdf"]

\* main() without -b: AgreementSplitter(args.input, args.output, ...) is about to
\* be constructed; the file may be missing, and then it has no pages
Init ==
    /\ bpc = "single"
    /\ IdleBatch /\ IdleGui
    /\ input_pdf = SingleInput
    /\ input_exists \in BOOLEAN
    /\ pages \in (IF input_exists THEN Documents ELSE {<<>>})
    /\ out_arg = ""
    /\ output_dir = ""
    /\ raised = ""
    /\ min_pages \in 1..MaxMinPages
    /\ merge_threshold \in MergeThresholds
    /\ pc = "new"
    /\ page_num = 0
    /\ markers = <<>>
    /\ IdleMerge /\ merge_runs = <<>>
    /\ IdleSplit /\ IdleProcess /\ IdleDetect

\* __init__: raises FileNotFoundError when the input is missing; otherwise sets
\* self.output_dir and creates it, and mkdir may raise
Construct ==
    /\ pc = "new"
    /\ IF ~input_exists
       THEN /\ raised' = "File not found"
            /\ pc' = "raised"
            /\ output_dir' = output_dir
       ELSE /\ output_dir' = IF out_arg # "" THEN out_arg ELSE DefaultOutputDir(input_pdf)
            /\ \E ok \in BOOLEAN :
                  IF ok THEN pc' = "scan" /\ raised' = raised
                        ELSE pc' = "raised" /\ raised' = "mkdir"
    /\ UNCHANGED <<guiVars, batchVars, input_pdf, input_exists, out_arg, detectVars, docVars,
                   scanVars, mergeVars, sections, report, splitVars, result>>

\* a page object whose extract_text() raises or returns None; every other page
\* object is held as the text its extract_text() returns
Unreadable == <<>>

\* a page whose text is the empty string
EmptyPage == <<"">>

\* (variant: the exception of page.extract_text() is not caught)
extract_text_uncaught(page) ==
    [raised |-> page = Unreadable,
     value |-> IF page = Unreadable THEN EmptyPage ELSE page]

\* try: return page.extract_text() or "" / except Exception: return "";
\* raised tells whether an exception leaves the method
extract_text(page) ==
    [raised |-> FALSE,
     value |-> IF page = Unreadable THEN EmptyPage ELSE page]

\* one iteration of: for page_num in range(total_pages); an exception would
\* leave find_all_sections and end in the except branch of process()
ScanPage ==
    /\ pc = "scan"
    /\ page_num < total_pages
    /\ LET extracted == extract_text(pages[page_num + 1])
           det == detect_section(extracted.value, page_num)
       IN IF extracted.raised
          THEN /\ pc' = "failed"
               /\ result' = [NoResult EXCEPT !.error = "extract_text",
                                              !.input_file = PathStr(input_pdf)]
               /\ UNCHANGED scanVars
          ELSE /\ markers' = IF Accepted(det) THEN Append(markers, Marker(det, page_num))
                             ELSE markers
               /\ page_num' = page_num + 1
               /\ UNCHANGED <<pc, result>>
    /\ UNCHANGED <<envVars, detectVars, docVars, mergeVars, sections, report, splitVars>>

\* the loop is over: return sections; process() calls build_sections(markers)
ScanReturn ==
    /\ pc = "scan"
    /\ page_num >= total_pages
    /\ pc' = "build"
    /\ UNCHANGED <<envVars, detectVars, docVars, scanVars, mergeVars, sections, report, splitVars, result>>

(***************************************************************************)
(* build_sections                                                          *)
(***************************************************************************)
\* (variant: the whole-document range ends one past the last page)
FallbackSection_endAtCount(n_pages) ==
    [type |-> "Complete_Agreement", start_page |-> 0, end_page |-> n_pages,
     confidence |-> FallbackConfidence, header |-> "Full document"]

\* the single section returned when there are no markers
FallbackSection(n_pages) ==
    [type |-> "Complete_Agreement", start_page |-> 0, end_page |-> n_pages - 1,
     confidence |-> FallbackConfidence, header |-> "Full document"]

\* (variant: a Section ends on the page of the next marker)
SectionEnd_onNextMarker(ms, i, n_pages) ==
    IF i + 1 <= Len(ms) THEN ms[i + 1].page ELSE n_pages - 1

\* end = markers[i + 1]['page'] - 1 if i + 1 < len(markers) else total_pages - 1
SectionEnd(ms, i, n_pages) ==
    IF i + 1 <= Len(ms) THEN ms[i + 1].page - 1 ELSE n_pages - 1

\* for i, marker in enumerate(markers): sections.append({...})
SectionsFromMarkers(ms, n_pages) ==
    [i \in 1..Len(ms) |->
        [type |-> ms[i].type, start_page |-> ms[i].page,
         end_page |-> SectionEnd(ms, i, n_pages),
         confidence |-> ms[i].confidence, header |-> ms[i].header]]

\* if not markers: return [{... 'Complete_Agreement' ...}]
BuildFallback ==
    /\ pc = "build"
    /\ markers = <<>>
    /\ sections' = <<FallbackSection(total_pages)>>
    /\ pc' = "report"
    /\ UNCHANGED <<envVars, detectVars, docVars, scanVars, mergeVars, report, splitVars, result>>

\* the marker loop, then the call self.merge_sections(sections)
BuildFromMarkers ==
    /\ pc = "build"
    /\ markers # <<>>
    /\ m_in' = SectionsFromMarkers(markers, total_pages)
    /\ pc' = "merge"
    /\ UNCHANGED <<envVars, detectVars, docVars, scanVars, current, next_idx, merged, merge_runs,
                   sections, report, splitVars, result>>

(***************************************************************************)
(* merge_sections                                                          *)
(***************************************************************************)
\* gap = next_sec['start_page'] - current['end_page']
Gap(cur, next_sec) == next_sec.start_page - cur.end_page

\* (variant: the gap must be strictly below the threshold)
ShouldMerge_strict(cur, next_sec, threshold) ==
    cur.type = next_sec.type /\ Gap(cur, next_sec) < threshold

\* if current['type'] == next_sec['type'] and gap <= self.merge_threshold
ShouldMerge(cur, next_sec, threshold) ==
    cur.type = next_sec.type /\ Gap(cur, next_sec) <= threshold

\* (variant: the merged section also takes the start of next_sec)
MergedPair_startFromNext(cur, next_sec) ==
    [cur EXCEPT !.start_page = next_sec.start_page,
                !.end_page = next_sec.end_page,
                !.confidence = Max(cur.confidence, next_sec.confidence)]

\* (variant: the end of the accumulator is not moved)
MergedPair_endNotExtended(cur, next_sec) ==
    [cur EXCEPT !.confidence = Max(cur.confidence, next_sec.confidence)]

\* the accumulator after next_sec was merged into it
MergedPair(cur, next_sec) ==
    [cur EXCEPT !.end_page = next_sec.end_page,
                !.confidence = Max(cur.confidence, next_sec.confidence)]

\* if len(sections) <= 1: return sections
MergeShort ==
    /\ pc = "merge"
    /\ Len(m_in) <= 1
    /\ merge_runs' = Append(merge_runs, [arg |-> m_in, ret |-> m_in])
    /\ pc' = "merged"
    /\ UNCHANGED <<envVars, detectVars, docVars, scanVars, m_in, current, next_idx, merged,
                   sections, report, splitVars, result>>

\* merged = []; current = sections[0].copy()
MergeStart ==
    /\ pc = "merge"
    /\ Len(m_in) > 1
    /\ merged' = <<>>
    /\ current' = m_in[1]
    /\ next_idx' = 2
    /\ pc' = "merge_loop"
    /\ UNCHANGED <<envVars, detectVars, docVars, scanVars, m_in, merge_runs,
                   sections, report, splitVars, result>>

\* one iteration of: for next_sec in sections[1:]
MergeStep ==
    /\ pc = "merge_loop"
    /\ next_idx <= Len(m_in)
    /\ LET next_sec == m_in[next_idx]
       IN IF ShouldMerge(current, next_sec, merge_threshold)
          THEN /\ current' = MergedPair(current, next_sec)
               /\ merged' = merged
          ELSE /\ merged' = Append(merged, current)
               /\ current' = next_sec
    /\ next_idx' = next_idx + 1
    /\ UNCHANGED <<envVars, detectVars, docVars, scanVars, m_in, merge_runs, pc,
                   sections, report, splitVars, result>>

\* merged.append(current); return merged
MergeReturn ==
    /\ pc = "merge_loop"
    /\ next_idx > Len(m_in)
    /\ merged' = Append(merged, current)
    /\ merge_runs' = Append(merge_runs, [arg |-> m_in, ret |-> merged'])
    /\ pc' = "merged"
    /\ UNCHANGED <<envVars, detectVars, docVars, scanVars, m_in, current, next_idx,
                   sections, report, splitVars, result>>

\* build_sections: sections = self.merge_sections(sections); return sections
BuildReturn ==
    /\ pc = "merged"
    /\ sections' = merge_runs[Len(merge_runs)].ret
    /\ pc' = "report"
    /\ UNCHANGED <<envVars, detectVars, docVars, scanVars, mergeVars, report, splitVars, result>>

(***************************************************************************)
(* create_report and the writing of analysis_report.txt                    *)
(***************************************************************************)
\* (variant: only the Sections of at least min_pages pages are listed)
create_report_survivorsOnly(secs) ==
    LET long(sec) == sec.end_page - sec.start_page + 1 >= min_pages
        kept == SelectSeq(secs, long)
    IN [idx \in 1..Len(kept) |->
           [idx |-> idx, type |-> kept[idx].type,
            first |-> kept[idx].start_page + 1, last |-> kept[idx].end_page + 1,
            pages |-> kept[idx].end_page - kept[idx].start_page + 1,
            confidence |-> kept[idx].confidence, header |-> kept[idx].header]]

\* for idx, sec in enumerate(sections, 1): the lines written for sec
create_report(secs) ==
    [idx \in 1..Len(secs) |->
        [idx |-> idx, type |-> secs[idx].type,
         first |-> secs[idx].start_page + 1, last |-> secs[idx].end_page + 1,
         pages |-> secs[idx].end_page - secs[idx].start_page + 1,
         confidence |-> secs[idx].confidence, header |-> secs[idx].header]]

\* report = self.create_report(sections); with open(report_path, 'w') ...: f.write(report)
\* and, when the write raised, the except branch of process()
WriteReport ==
    /\ pc = "report"
    /\ report' = create_report(sections)
    /\ \E ok \in BOOLEAN :
          IF ok
          THEN /\ pc' = "split"
               /\ sec_idx' = 1
               /\ counters' = [t \in TypeNames |-> 0]
               /\ created' = <<>>
               /\ planned' = <<>>
               /\ result' = result
          ELSE /\ pc' = "failed"
               /\ result' = [NoResult EXCEPT !.error = "report",
                                              !.input_file = PathStr(input_pdf)]
               /\ UNCHANGED splitVars
    /\ UNCHANGED <<envVars, detectVars, docVars, scanVars, mergeVars, sections>>

(***************************************************************************)
(* split_pdf                                                               *)
(***************************************************************************)
\* pages = end - start + 1
PageCount(sec) == sec.end_page - sec.start_page + 1

\* (variant: a section of exactly min_pages pages is dropped too)
TooShort_inclusive(sec, minimum) == PageCount(sec) <= minimum

\* if pages < self.min_pages: ... continue
TooShort(sec, minimum) == PageCount(sec) < minimum

\* (variant: one count shared by all types)
IncrCounter_shared(cnt, stype) == [t \in DOMAIN cnt |-> cnt[t] + 1]

\* counters[stype] = counters.get(stype, 0) + 1
IncrCounter(cnt, stype) == [cnt EXCEPT ![stype] = @ + 1]

\* f"{num:02d}"
Format02d(num) == IF num < 10 THEN "0" \o ToString(num) ELSE ToString(num)

\* (variant: the number is put into every name)
FileName_alwaysNumbered(stype, num, start, end) ==
    stype \o "_" \o Format02d(num) \o "_p" \o ToString(start + 1) \o "-"
          \o ToString(end + 1) \o ".pdf"

\* (variant: the name is made of the type alone)
FileName_typeOnly(stype, num, start, end) == stype \o ".pdf"

\* the filename chosen under "# Filename"
FileName(stype, num, start, end) ==
    IF num > 1
    THEN stype \o "_" \o Format02d(num) \o "_p" \o ToString(start + 1) \o "-"
               \o ToString(end + 1) \o ".pdf"
    ELSE stype \o "_p" \o ToString(start + 1) \o "-" \o ToString(end + 1) \o ".pdf"

\* (variant: the loop body records in sec that it was gone through)
LoopBodyLeaves_marked(secs, i) == [secs EXCEPT ![i].header = "done"]

\* the list as one iteration of "for sec in sections" leaves it: the body only
\* reads sec['start_page'], sec['end_page'] and sec['type']
LoopBodyLeaves(secs, i) == secs

\* an iteration that ends at: continue
SplitSkip ==
    /\ pc = "split"
    /\ sec_idx <= Len(sections)
    /\ TooShort(sections[sec_idx], min_pages)
    /\ sections' = LoopBodyLeaves(sections, sec_idx)
    /\ sec_idx' = sec_idx + 1
    /\ UNCHANGED <<envVars, detectVars, docVars, scanVars, mergeVars, report, pc,
                   counters, planned, created, result>>

\* (variant: the count is taken back when the write raised)
CountersAfterWrite_onSuccessOnly(cnt, stype, ok) ==
    IF ok THEN IncrCounter(cnt, stype) ELSE cnt

\* counters at the end of an iteration that wrote or failed to write: the
\* increment stands before the try, so the outcome of the write plays no part
CountersAfterWrite(cnt, stype, ok) == IncrCounter(cnt, stype)

\* an iteration that counts, names and writes the section; the write may raise,
\* which is logged and leaves created as it was
SplitWrite ==
    /\ pc = "split"
    /\ sec_idx <= Len(sections)
    /\ ~TooShort(sections[sec_idx], min_pages)
    /\ LET sec == sections[sec_idx]
           stype == sec.type
           num == IncrCounter(counters, stype)[stype]
           filename == FileName(stype, num, sec.start_page, sec.end_page)
           filepath == output_dir \o "/" \o filename
       IN \E ok \in BOOLEAN :
             /\ counters' = CountersAfterWrite(counters, stype, ok)
             /\ planned' = Append(planned, [sec |-> sec_idx, type |-> stype, num |-> num,
                                            filename |-> filename, written |-> ok])
             /\ created' = IF ok THEN Append(created, filepath) ELSE created
    /\ sections' = LoopBodyLeaves(sections, sec_idx)
    /\ sec_idx' = sec_idx + 1
    /\ UNCHANGED <<envVars, detectVars, docVars, scanVars, mergeVars, report, pc, result>>

\* return created; process() returns the success dict
SplitReturn ==
    /\ pc = "split"
    /\ sec_idx > Len(sections)
    /\ pc' = "done"
    /\ result' = [success |-> TRUE, error |-> "",
                  input_file |-> PathStr(input_pdf), output_dir |-> output_dir,
                  sections_found |-> Len(sections), files_created |-> Len(created),
                  created_files |-> created]
    /\ UNCHANGED <<envVars, detectVars, docVars, scanVars, mergeVars, sections, report, splitVars>>

(***************************************************************************)
(* process() on every document within the bounds.                          *)
(***************************************************************************)
Next ==
    \/ Construct
    \/ ScanPage
    \/ ScanReturn
    \/ BuildFallback
    \/ BuildFromMarkers
    \/ MergeShort
    \/ MergeStart
    \/ MergeStep
    \/ MergeReturn
    \/ BuildReturn
    \/ WriteReport
    \/ SplitSkip
    \/ SplitWrite
    \/ SplitReturn

Spec == Init /\ [][Next]_vars

(***************************************************************************)
(* merge_sections on its own, over arbitrary Section lists, called a       *)
(* second time on the list it returned.                                    *)
(***************************************************************************)
\* the page indices of the arbitrary Sections: gaps from -1 to 1
MergePages == {0, 1}

AnySection ==
    [type : {"TOC", "Annexe"}, start_page : MergePages, end_page : MergePages,
     confidence : {90, 100}, header : {"Header"}]

\* the number of pages of the first k Sections of a list given by its lengths
RECURSIVE PagesBefore(_, _)
PagesBefore(shapes, k) ==
    IF k = 0 THEN 0 ELSE shapes[k].len + PagesBefore(shapes, k - 1)

\* the lists build_sections hands to merge_sections have this form: each
\* Section starts on the page after the end of the one before it
ContiguousLists ==
    {[i \in 1..Len(shapes) |->
         [type |-> shapes[i].type,
          start_page |-> first + PagesBefore(shapes, i - 1),
          end_page |-> first + PagesBefore(shapes, i) - 1,
          confidence |-> 90, header |-> "Header"]] :
       shapes \in SeqsUpTo([type : {"TOC", "Annexe"}, len : {1, 2}], MaxSections),
       first \in MergePages}

InitMerge ==
    /\ m_in \in SeqsUpTo(AnySection, MaxSections) \cup ContiguousLists
    /\ merge_threshold \in {0, 1}
    /\ pc = "merge"
    /\ current = NoSection /\ next_idx = 0 /\ merged = <<>> /\ merge_runs = <<>>
    /\ pages = <<>> /\ min_pages = 0
    /\ IdleScan /\ IdleSplit /\ IdleProcess /\ IdleDetect
    /\ IdleInit /\ IdleBatch /\ bpc = "idle" /\ IdleGui

\* merge_sections(merge_sections(S)): the returned list is the next call's argument
MergeAgain ==
    /\ pc = "merged"
    /\ Len(merge_runs) < 2
    /\ m_in' = merge_runs[Len(merge_runs)].ret
    /\ pc' = "merge"
    /\ UNCHANGED <<envVars, detectVars, docVars, scanVars, current, next_idx, merged, merge_runs,
                   sections, report, splitVars, result>>

NextMerge ==
    \/ MergeShort
    \/ MergeStart
    \/ MergeStep
    \/ MergeReturn
    \/ MergeAgain

SpecMerge == InitMerge /\ [][NextMerge]_vars

(***************************************************************************)
(* batch_process: every PDF of a directory, one AgreementSplitter each.    *)
(***************************************************************************)
\* the files a directory may hold
FileUniverse ==
    [parent : {"in"}, stem : {"a", "b"}, suffix : {".pdf", ".PDF"}]
        \cup {[parent |-> "in", stem |-> "notes", suffix |-> ".txt"]}

\* str.lower() on the suffixes of FileUniverse
casefold(suffix) == IF suffix = ".PDF" THEN ".pdf" ELSE suffix

\* the name of a file as a file system that ignores case sees it
FoldedName(f) == f.stem \o casefold(f.suffix)

\* the directory listings: no file twice, and on a platform that ignores case
\* no two names that differ by case alone
Listings(sensitive) ==
    {fs \in SeqsUpTo(FileUniverse, MaxFiles) :
        \A i, j \in 1..Len(fs) :
            i < j => /\ fs[i] # fs[j]
                     /\ sensitive \/ FoldedName(fs[i]) # FoldedName(fs[j])}

\* what is in each PDF of FileUniverse
ContentOf(f) ==
    CASE f.stem = "a" /\ f.suffix = ".pdf" -> <<TocPage, BodyPage>>
      [] f.stem = "a" /\ f.suffix = ".PDF" ->
            <<AnnexePage, BodyPage, TocPage, BodyPage, AnnexePage, BodyPage>>
      [] f.stem = "b" /\ f.suffix = ".pdf" -> <<BodyPage>>
      [] OTHER -> <<AnnexeSecondLinePage, BodyPage>>

\* input_path.glob("*" + suffix): the pattern is matched with case on POSIX and
\* without on Windows
glob(dir, suffix, sensitive) ==
    LET matches(f) == IF sensitive THEN f.suffix = suffix
                      ELSE casefold(f.suffix) = casefold(suffix)
    IN SelectSeq(dir.files, matches)

\* list(input_path.glob("*.pdf")) + list(input_path.glob("*.PDF"))
GlobPdfs(dir, sensitive) == glob(dir, ".pdf", sensitive) \o glob(dir, ".PDF", sensitive)

\* main() with -b: batch_process(args.input, args.output, ...) is about to run
InitBatch ==
    /\ bpc = "start"
    /\ case_sensitive \in BOOLEAN
    /\ input_dir \in {[exists |-> FALSE, files |-> <<>>]}
                       \cup {[exists |-> TRUE, files |-> fs] : fs \in Listings(case_sensitive)}
    /\ batch_out \in {"", "out"}
    /\ pdfs = <<>>
    /\ pdf_idx = 0
    /\ results = <<>>
    /\ summary = NoSummary
    /\ min_pages = DefaultMinPages
    /\ merge_threshold = DefaultMergeThreshold
    /\ pages = <<>>
    /\ pc = "idle"
    /\ IdleInit /\ IdleScan /\ IdleMerge /\ merge_runs = <<>>
    /\ IdleSplit /\ IdleProcess /\ IdleDetect /\ IdleGui

\* if not input_path.exists(): ... return []
BatchNoDirectory ==
    /\ bpc = "start"
    /\ ~input_dir.exists
    /\ bpc' = "returned"
    /\ UNCHANGED <<guiVars, input_dir, case_sensitive, batch_out, pdfs, pdf_idx, results, summary,
                   initVars, detectVars, docVars, pc, scanVars, mergeVars, sections,
                   report, splitVars, result>>

\* pdfs = ...; if not pdfs: ... return []
BatchNoPdfs ==
    /\ bpc = "start"
    /\ input_dir.exists
    /\ GlobPdfs(input_dir, case_sensitive) = <<>>
    /\ bpc' = "returned"
    /\ UNCHANGED <<guiVars, input_dir, case_sensitive, batch_out, pdfs, pdf_idx, results, summary,
                   initVars, detectVars, docVars, pc, scanVars, mergeVars, sections,
                   report, splitVars, result>>

\* pdfs = ...; results = []; the loop is entered
BatchStart ==
    /\ bpc = "start"
    /\ input_dir.exists
    /\ GlobPdfs(input_dir, case_sensitive) # <<>>
    /\ pdfs' = GlobPdfs(input_dir, case_sensitive)
    /\ pdf_idx' = 1
    /\ results' = <<>>
    /\ bpc' = "loop"
    /\ UNCHANGED <<guiVars, input_dir, case_sensitive, batch_out, summary,
                   initVars, detectVars, docVars, pc, scanVars, mergeVars, sections,
                   report, splitVars, result>>

\* out = Path(output_dir) / f"{pdf.stem}_split" if output_dir else None
BatchOut(out, pdf) == IF out # "" THEN out \o "/" \o pdf.stem \o "_split" ELSE ""

\* for pdf in pdfs: the constructor of a new AgreementSplitter is about to run on
\* pdf, which glob has just listed
BatchIterate ==
    /\ bpc = "loop"
    /\ pdf_idx <= Len(pdfs)
    /\ input_pdf' = pdfs[pdf_idx]
    /\ input_exists' = TRUE
    /\ out_arg' = BatchOut(batch_out, pdfs[pdf_idx])
    /\ output_dir' = ""
    /\ raised' = ""
    /\ pages' = ContentOf(pdfs[pdf_idx])
    /\ pc' = "new"
    /\ page_num' = 0
    /\ markers' = <<>>
    /\ m_in' = <<>> /\ current' = NoSection /\ next_idx' = 0 /\ merged' = <<>>
    /\ merge_runs' = <<>>
    /\ sections' = <<>>
    /\ report' = <<>>
    /\ sec_idx' = 0
    /\ counters' = [t \in TypeNames |-> 0]
    /\ planned' = <<>>
    /\ created' = <<>>
    /\ result' = NoResult
    /\ bpc' = "running"
    /\ UNCHANGED <<guiVars, input_dir, case_sensitive, batch_out, pdfs, pdf_idx, results, summary,
                   detectVars, min_pages, merge_threshold>>

\* result = splitter.process(); results.append(result)
BatchAppend ==
    /\ bpc = "running"
    /\ pc \in {"done", "failed"}
    /\ results' = Append(results, result)
    /\ pdf_idx' = pdf_idx + 1
    /\ bpc' = "loop"
    /\ UNCHANGED <<guiVars, input_dir, case_sensitive, batch_out, pdfs, summary,
                   initVars, detectVars, docVars, pc, scanVars, mergeVars, sections,
                   report, splitVars, result>>

\* except Exception as e: results.append({'success': False, 'input_file': ..., 'error': ...})
BatchExcept ==
    /\ bpc = "running"
    /\ pc = "raised"
    /\ results' = Append(results, [NoResult EXCEPT !.input_file = PathStr(pdfs[pdf_idx]),
                                                    !.error = raised])
    /\ pdf_idx' = pdf_idx + 1
    /\ bpc' = "loop"
    /\ UNCHANGED <<guiVars, input_dir, case_sensitive, batch_out, pdfs, summary,
                   initVars, detectVars, docVars, pc, scanVars, mergeVars, sections,
                   report, splitVars, result>>

\* sum(r.get('files_created', 0) for r in results)
RECURSIVE TotalFiles(_)
TotalFiles(rs) == IF rs = <<>> THEN 0 ELSE Head(rs).files_created + TotalFiles(Tail(rs))

\* sum(1 for r in results if r.get('success'))
SuccessCount(rs) == Cardinality({i \in 1..Len(rs) : rs[i].success})

\* the loop is over: the summary is logged and results returned
BatchReturn ==
    /\ bpc = "loop"
    /\ pdf_idx > Len(pdfs)
    /\ summary' = [processed |-> Len(results),
                   successful |-> SuccessCount(results),
                   failed |-> Len(results) - SuccessCount(results),
                   total_files |-> TotalFiles(results)]
    /\ bpc' = "returned"
    /\ UNCHANGED <<guiVars, input_dir, case_sensitive, batch_out, pdfs, pdf_idx, results,
                   initVars, detectVars, docVars, pc, scanVars, mergeVars, sections,
                   report, splitVars, result>>

NextBatch ==
    \/ BatchNoDirectory
    \/ BatchNoPdfs
    \/ BatchStart
    \/ BatchIterate
    \/ BatchAppend
    \/ BatchExcept
    \/ BatchReturn
    \/ Next

SpecBatch == InitBatch /\ [][NextBatch]_vars

(***************************************************************************)
(* find_all_sections on its own, over documents that also have pages whose *)
(* text cannot be extracted and pages without text.                        *)
(***************************************************************************)
PageObjects == PageTexts \cup {Unreadable, EmptyPage}

InitScan ==
    /\ pages \in SeqsUpTo(PageObjects, MaxPages)
    /\ min_pages = DefaultMinPages
    /\ merge_threshold = DefaultMergeThreshold
    /\ pc = "scan"
    /\ page_num = 0
    /\ markers = <<>>
    /\ IdleMerge /\ merge_runs = <<>>
    /\ IdleSplit /\ IdleProcess /\ IdleDetect
    /\ IdleInit /\ IdleBatch /\ bpc = "idle" /\ IdleGui

NextScan ==
    \/ ScanPage
    \/ ScanReturn

SpecScan == InitScan /\ [][NextScan]_vars

(***************************************************************************)
(* The window of gui_splitter.py: the Process button, the worker thread    *)
(* it starts and the callbacks the worker hands to the Tk main loop.       *)
(***************************************************************************)
\* worker threads started in one session of the window
MaxRuns == 2

\* what the Input entry may hold: nothing, a path that does not exist, one that does
InputPaths == {"", "missing.pdf", "agreement.pdf"}

\* Path(input_path).exists()
PathExists(path) == path = "agreement.pdf"

NotRun == "none"

\* how a run of the try block of _process_thread can go: batch_process returns
\* its list; AgreementSplitter(...) raises for a path that does not exist and
\* may raise in mkdir; process() returns success True or False; the .get() of
\* a spin box can raise
Outcomes(batch, path) ==
    IF batch THEN {"complete", "raised"}
    ELSE IF PathExists(path) THEN {"success", "failed", "raised"}
    ELSE IF path = "" THEN {"failed", "raised"}
    ELSE {"raised"}

\* the message box the worker asks the main loop to show
MessageOf(outcome) ==
    CASE outcome = "complete" -> "info_complete"
      [] outcome = "success" -> "info_success"
      [] outcome = "failed" -> "error_failed"
      [] outcome = "raised" -> "error_exception"

\* (variant: the request is never taken for a repeated one)
AlreadyProcessing_never(flag) == FALSE

\* if self.processing:
AlreadyProcessing(flag) == flag

\* (variant: the hand-over stands at the end of the try block, not in finally)
SchedulesComplete_unlessRaised(outcome) == outcome # "raised"

\* finally: self.root.after(0, self._processing_complete), whatever happened
SchedulesComplete(outcome) == TRUE

\* the threads whose _process_thread has not handed over to _processing_complete
ActiveThreads == {w \in 1..Len(threads) : threads[w].pc \in {"started", "ran"}}

\* the threads that have not ended
LiveThreads == {w \in 1..Len(threads) : threads[w].pc # "exited"}

OnMain(code) == [code |-> code, thread |-> "main"]

OnWorker(code) == [code |-> code, thread |-> "worker"]

\* main(): PDFSplitterGUI(root) is built and root.mainloop() runs
InitGui ==
    /\ input_path = ""
    /\ batch_mode = FALSE
    /\ processing = FALSE
    /\ process_btn = "normal"
    /\ progress = FALSE
    /\ threads = <<>>
    /\ after_queue = <<>>
    /\ shown = {}
    /\ mainloop = TRUE
    /\ ran = OnMain("__init__")
    /\ pc = "idle"
    /\ pages = <<>> /\ min_pages = DefaultMinPages /\ merge_threshold = DefaultMergeThreshold
    /\ IdleScan /\ IdleMerge /\ merge_runs = <<>>
    /\ IdleSplit /\ IdleProcess /\ IdleDetect
    /\ IdleInit /\ IdleBatch /\ bpc = "idle"

pipelineVars == <<batchVars, initVars, detectVars, docVars, pc, scanVars, mergeVars,
                  sections, report, splitVars, result>>

\* the user fills the Input entry, by hand or through browse_input; an open
\* message box holds the window
SetInput ==
    /\ mainloop /\ shown = {}
    /\ \E path \in InputPaths \ {input_path} : input_path' = path
    /\ ran' = OnMain("browse_input")
    /\ UNCHANGED <<batch_mode, processing, process_btn, progress, threads, after_queue,
                   shown, mainloop, pipelineVars>>

\* the user ticks or clears the Batch Mode box
ToggleBatch ==
    /\ mainloop /\ shown = {}
    /\ batch_mode' = ~batch_mode
    /\ ran' = OnMain("batch_mode")
    /\ UNCHANGED <<input_path, processing, process_btn, progress, threads, after_queue,
                   shown, mainloop, pipelineVars>>

\* process_files, called while a run is on: the warning and nothing else. The
\* handler is taken as callable whatever the state of its button.
ProcessReject ==
    /\ mainloop /\ shown = {}
    /\ AlreadyProcessing(processing)
    /\ shown' = shown \cup {"warning"}
    /\ ran' = OnMain("process_files")
    /\ UNCHANGED <<input_path, batch_mode, processing, process_btn, progress, threads,
                   after_queue, mainloop, pipelineVars>>

\* process_files with no input, or an input that does not exist: an error box
ProcessBadInput ==
    /\ mainloop /\ shown = {}
    /\ ~AlreadyProcessing(processing)
    /\ ~PathExists(input_path)
    /\ shown' = shown \cup {IF input_path = "" THEN "error_no_input" ELSE "error_no_path"}
    /\ ran' = OnMain("process_files")
    /\ UNCHANGED <<input_path, batch_mode, processing, process_btn, progress, threads,
                   after_queue, mainloop, pipelineVars>>

\* process_files that starts a run: flag, button, progress bar, then the thread
ProcessAccept ==
    /\ mainloop /\ shown = {}
    /\ ~AlreadyProcessing(processing)
    /\ PathExists(input_path)
    /\ Len(threads) < MaxRuns
    /\ processing' = TRUE
    /\ process_btn' = "disabled"
    /\ progress' = TRUE
    /\ threads' = Append(threads, [pc |-> "started", outcome |-> NotRun])
    /\ ran' = OnMain("process_files")
    /\ UNCHANGED <<input_path, batch_mode, after_queue, shown, mainloop, pipelineVars>>

\* _process_thread, the try block with its except clause: the worker reads the
\* entry and the box as they are now, runs, and hands the message box to the
\* main loop
WorkerRun(w) ==
    /\ mainloop
    /\ threads[w].pc = "started"
    /\ \E outcome \in Outcomes(batch_mode, input_path) :
          /\ threads' = [threads EXCEPT ![w] = [pc |-> "ran", outcome |-> outcome]]
          /\ after_queue' = Append(after_queue, MessageOf(outcome))
    /\ ran' = OnWorker("_process_thread")
    /\ UNCHANGED <<input_path, batch_mode, processing, process_btn, progress, shown,
                   mainloop, pipelineVars>>

\* _process_thread, the finally clause
WorkerFinally(w) ==
    /\ mainloop
    /\ threads[w].pc = "ran"
    /\ threads' = [threads EXCEPT ![w].pc = "handed"]
    /\ after_queue' = IF SchedulesComplete(threads[w].outcome)
                      THEN Append(after_queue, "_processing_complete")
                      ELSE after_queue
    /\ ran' = OnWorker("_process_thread")
    /\ UNCHANGED <<input_path, batch_mode, processing, process_btn, progress, shown,
                   mainloop, pipelineVars>>

\* _process_thread returns and the thread ends
WorkerExit(w) ==
    /\ mainloop
    /\ threads[w].pc = "handed"
    /\ threads' = [threads EXCEPT ![w].pc = "exited"]
    /\ ran' = OnWorker("_process_thread")
    /\ UNCHANGED <<input_path, batch_mode, processing, process_btn, progress, after_queue,
                   shown, mainloop, pipelineVars>>

WorkerStep(w) ==
    /\ w \in DOMAIN threads
    /\ (WorkerRun(w) \/ WorkerFinally(w) \/ WorkerExit(w))

\* the main loop runs the oldest callback of root.after(0, ...): a message box
\* opens (the lambda of the except clause reads e, which is unbound once the
\* clause has ended, and then the callback raises and no box opens), or
\* _processing_complete runs
RunCallback ==
    /\ mainloop
    /\ after_queue # <<>>
    /\ after_queue' = Tail(after_queue)
    /\ LET callback == Head(after_queue)
       IN IF callback = "_processing_complete"
          THEN /\ processing' = FALSE
               /\ process_btn' = "normal"
               /\ progress' = FALSE
               /\ shown' = shown
               /\ ran' = OnMain("_processing_complete")
          ELSE /\ shown' \in IF callback = "error_exception"
                             THEN {shown \cup {callback}, shown}
                             ELSE {shown \cup {callback}}
               /\ ran' = OnMain("messagebox")
               /\ UNCHANGED <<processing, process_btn, progress>>
    /\ UNCHANGED <<input_path, batch_mode, threads, mainloop, pipelineVars>>

\* the user closes a message box
Dismiss ==
    /\ mainloop
    /\ \E box \in shown : shown' = shown \ {box}
    /\ ran' = OnMain("messagebox")
    /\ UNCHANGED <<input_path, batch_mode, processing, process_btn, progress, threads,
                   after_queue, mainloop, pipelineVars>>

\* the Exit button: root.quit ends mainloop and with it the process and its
\* daemon threads
Exit ==
    /\ mainloop /\ shown = {}
    /\ mainloop' = FALSE
    /\ ran' = OnMain("quit")
    /\ UNCHANGED <<input_path, batch_mode, processing, process_btn, progress, threads,
                   after_queue, shown, pipelineVars>>

NextGui ==
    \/ SetInput
    \/ ToggleBatch
    \/ ProcessReject
    \/ ProcessBadInput
    \/ ProcessAccept
    \/ \E w \in 1..Len(threads) : WorkerRun(w)
    \/ \E w \in 1..Len(threads) : WorkerFinally(w)
    \/ \E w \in 1..Len(threads) : WorkerExit(w)
    \/ RunCallback
    \/ Dismiss
    \/ Exit

SpecGui == InitGui /\ [][NextGui]_vars

\* the main loop keeps running the callbacks handed to it and every worker
\* thread keeps being scheduled
SpecGuiFair ==
    /\ InitGui /\ [][NextGui]_vars
    /\ WF_vars(RunCallback)
    /\ \A w \in 1..MaxRuns : WF_vars(WorkerStep(w))

(***************************************************************************)
(* Properties.                                                             *)
(***************************************************************************)
\* build_sections has returned
Built == pc \in {"report", "split", "done", "failed"}

PagesOf(sec) == sec.start_page..sec.end_page

PairwiseDisjoint(secs) ==
    \A i, j \in 1..Len(secs) : i # j => PagesOf(secs[i]) \cap PagesOf(secs[j]) = {}

Covered(secs) == UNION {PagesOf(secs[i]) : i \in 1..Len(secs)}

\* C1: for a non-empty marker list the Sections build_sections returns are
\* pairwise disjoint and their union is every page 0..total_pages-1.
C1_SectionsPartitionDocument ==
    (Built /\ markers # <<>>) =>
        /\ PairwiseDisjoint(sections)
        /\ Covered(sections) = 0..(total_pages - 1)

\* C2: with no accepted marker build_sections returns exactly one Section,
\* Complete_Agreement over 0..total_pages-1 with confidence 50, and
\* Complete_Agreement occurs in a section list only when there is no marker.
C2_FallbackOnlyWithoutMarkers ==
    Built =>
        /\ markers = <<>> =>
              /\ Len(sections) = 1
              /\ sections[1].type = "Complete_Agreement"
              /\ sections[1].start_page = 0
              /\ sections[1].end_page = Len(pages) - 1
              /\ sections[1].confidence = 50
        /\ (\E i \in 1..Len(sections) : sections[i].type = "Complete_Agreement")
              => markers = <<>>

\* a ten-page document without any header was processed to the end
C2_Witness ==
    /\ pc = "done"
    /\ Len(pages) = 10
    /\ markers = <<>>
    /\ Len(report) = 1 /\ report[1].confidence = 50
    /\ Len(planned) = 1

\* C3: merge_sections applied to its own result returns that result unchanged.
C3_MergeIdempotent ==
    Len(merge_runs) = 2 => merge_runs[2].ret = merge_runs[1].ret

\* a list of three Sections was merged to two Sections of one type, which the
\* second call left apart
C3_Witness ==
    /\ Len(merge_runs) = 2
    /\ Len(merge_runs[1].arg) = 3
    /\ Len(merge_runs[1].ret) = 2
    /\ merge_runs[1].ret[1].type = merge_runs[1].ret[2].type
    /\ merge_runs[2].arg = merge_runs[1].ret

\* one loop iteration of merge_sections does what C4 says
C4_Step ==
    (pc = "merge_loop" /\ pc' = "merge_loop") =>
        LET nxt == m_in[next_idx]
            close == /\ current.type = nxt.type
                     /\ nxt.start_page - current.end_page <= merge_threshold
        IN IF close
           THEN /\ merged' = merged
                /\ current'.type = current.type
                /\ current'.start_page = current.start_page
                /\ current'.end_page = nxt.end_page
                /\ current'.confidence >= current.confidence
                /\ current'.confidence >= nxt.confidence
                /\ current'.confidence \in {current.confidence, nxt.confidence}
           ELSE /\ merged' = Append(merged, current)
                /\ current' = nxt

\* the worked example: 12 pages, markers (0,TOC,100), (2,Annexe,100), (6,Annexe,90)
C4_Scenario ==
    (Built /\ pages = ScenarioB /\ merge_threshold = 5) =>
        /\ [i \in 1..Len(markers) |-> <<markers[i].page, markers[i].type,
                                        markers[i].confidence>>]
              = << <<0, "TOC", 100>>, <<2, "Annexe", 100>>, <<6, "Annexe", 90>> >>
        /\ [i \in 1..Len(sections) |-> <<sections[i].type, sections[i].start_page,
                                         sections[i].end_page, sections[i].confidence>>]
              = << <<"TOC", 0, 1, 100>>, <<"Annexe", 2, 11, 100>> >>

\* C4: the accumulator and the next Section are merged iff they have the same
\* type and next.start_page - current.end_page <= merge_threshold; the merged
\* Section spans [left.start_page, right.end_page] with the larger confidence;
\* otherwise the accumulator is emitted unchanged and next becomes the
\* accumulator; the worked example ends as [(TOC,0-1),(Annexe,2-11,100)].
C4_MergeRule == [][C4_Step]_vars /\ []C4_Scenario

\* the worked example was processed to the end
C4_Witness ==
    /\ pc = "done"
    /\ pages = ScenarioB
    /\ merge_threshold = 5
    /\ Len(merge_runs) = 1
    /\ Len(merge_runs[1].arg) = 3
    /\ Len(sections) = 2

\* split_pdf is running or has returned
Splitting == pc \in {"split", "done"}

\* the sections split_pdf has gone through
Visited == 1..Min(sec_idx - 1, Len(sections))

PlannedSecs == {planned[j].sec : j \in 1..Len(planned)}

\* C5: a Section gets no output planned iff its page count is below min_pages;
\* dropping one is no error: split_pdf goes on to the end of the list.
C5_DroppedIffTooShort ==
    Splitting =>
        /\ \A i \in Visited :
              (i \notin PlannedSecs) <=>
                  (sections[i].end_page - sections[i].start_page + 1 < min_pages)
        /\ PlannedSecs \subseteq Visited
        /\ pc = "done" => (Visited = 1..Len(sections) /\ result.success)

\* a Section was dropped and a later one was planned, and process ended well
C5_Witness ==
    /\ pc = "done"
    /\ result.success
    /\ \E i, j \in 1..Len(sections) :
          /\ i < j
          /\ i \notin PlannedSecs
          /\ j \in PlannedSecs
          /\ PageCount(sections[j]) = min_pages

\* C6: the numbers given to the surviving Sections of one type are 1, 2, ..., k
\* in document order; a dropped Section takes no number.
C6_NumbersContiguous ==
    Splitting =>
        /\ \A j \in 1..Len(planned) :
              /\ planned[j].type = sections[planned[j].sec].type
              /\ planned[j].num =
                    Cardinality({i \in 1..j : planned[i].type = planned[j].type})
        /\ \A i, j \in 1..Len(planned) : i < j => planned[i].sec < planned[j].sec
        /\ \A t \in TypeNames :
              counters[t] = Cardinality({j \in 1..Len(planned) : planned[j].type = t})

\* a one-page Section of a type is dropped and the next Section, of the same
\* type, is the first output of that type
C6_Witness ==
    /\ pc = "done"
    /\ \E i \in 1..Len(sections) : \E a \in 1..Len(planned) :
          /\ i \notin PlannedSecs
          /\ planned[a].sec = i + 1
          /\ sections[i].type = planned[a].type
          /\ planned[a].num = 1
          /\ counters[planned[a].type] = 1

\* "_p{s+1}-{e+1}.pdf"
RangeSuffix(sec) ==
    "_p" \o ToString(sec.start_page + 1) \o "-" \o ToString(sec.end_page + 1) \o ".pdf"

\* "{C}_{n:02d}" for the numbers of the model, all below 100
Numbered(type, n) ==
    type \o "_" \o (IF n <= 9 THEN "0" ELSE "") \o ToString(n)

\* how many planned outputs have this type
Occurrences(type) == Cardinality({j \in 1..Len(planned) : planned[j].type = type})

\* C7 as stated: the plain name when the type occurs once among the surviving
\* Sections, the numbered name for every occurrence of a repeated type.
C7_NameByOccurrences ==
    pc = "done" =>
        \A j \in 1..Len(planned) :
            planned[j].filename =
                IF Occurrences(planned[j].type) > 1
                THEN Numbered(planned[j].type, planned[j].num)
                         \o RangeSuffix(sections[planned[j].sec])
                ELSE planned[j].type \o RangeSuffix(sections[planned[j].sec])

\* C7 (amended): the plain name "{C}_p{s+1}-{e+1}.pdf" when the sequence number
\* is 1, the numbered name "{C}_{n:02d}_p{s+1}-{e+1}.pdf" when it is above 1.
C7_NameByNumber ==
    Splitting =>
        \A j \in 1..Len(planned) :
            planned[j].filename =
                IF planned[j].num > 1
                THEN Numbered(planned[j].type, planned[j].num)
                         \o RangeSuffix(sections[planned[j].sec])
                ELSE planned[j].type \o RangeSuffix(sections[planned[j].sec])

\* a type occurs twice among the outputs: the first is named plainly, the second _02
C7_Witness ==
    /\ pc = "done"
    /\ \E a, b \in 1..Len(planned) :
          /\ planned[a].type = "Annexe" /\ planned[b].type = "Annexe"
          /\ planned[a].filename = "Annexe_p1-1.pdf"
          /\ planned[b].filename = "Annexe_02_p3-4.pdf"

\* C8: the file names derived for the surviving Sections of a document are
\* pairwise distinct.
C8_NamesDistinct ==
    /\ \A i, j \in 1..Len(planned) : i # j => planned[i].filename # planned[j].filename
    /\ \A i, j \in 1..Len(created) : i # j => created[i] # created[j]

\* three outputs, two of them of one type, all written
C8_Witness ==
    /\ pc = "done"
    /\ Len(planned) >= 3
    /\ Len(created) = Len(planned)
    /\ \E i, j \in 1..Len(planned) : i # j /\ planned[i].type = planned[j].type

\* the significant lines of a text, all of them, in order
Significant(line) == strip(line) # "" /\ ~isdigit(strip(line)) /\ Len(strip(line)) > 2

SigLines(t) ==
    LET kept == SelectSeq(t, Significant)
    IN [i \in 1..Len(kept) |-> strip(kept[i])]

\* the rules, as <<position of the type, position of the rule>>, matching a line
RulesMatching(line) ==
    UNION { { <<c, k>> : k \in {r \in 1..Len(PATTERNS[c].patterns) :
                                   re_search(PATTERNS[c].patterns[r].rule, upper(line))} }
            : c \in 1..Len(PATTERNS) }

BaseOf(ck) == PATTERNS[ck[1]].patterns[ck[2]].base
TypeOf(ck) == PATTERNS[ck[1]].type

\* C9: only the first two significant lines are examined: a match on the first
\* gives a rule's base confidence, a match on the second gives base - 10, and
\* with no match on either the result is None whatever the later lines hold.
C9_FirstTwoLinesOnly ==
    dpc = "done" =>
        LET sig == SigLines(text)
            hit1 == Len(sig) >= 1 /\ RulesMatching(sig[1]) # {}
            hit2 == Len(sig) >= 2 /\ RulesMatching(sig[2]) # {}
        IN /\ hit1 =>
                 /\ detection # None
                 /\ detection[3] = sig[1]
                 /\ \E ck \in RulesMatching(sig[1]) :
                       detection[1] = TypeOf(ck) /\ detection[2] = BaseOf(ck)
           /\ (~hit1 /\ hit2) =>
                 /\ detection # None
                 /\ detection[3] = sig[2]
                 /\ \E ck \in RulesMatching(sig[2]) :
                       detection[1] = TypeOf(ck) /\ detection[2] = BaseOf(ck) - 10
           /\ (~hit1 /\ ~hit2) => detection = None

\* the third significant line is a header, the first two are not: None
C9_Witness ==
    /\ dpc = "done"
    /\ Len(SigLines(text)) >= 3
    /\ RulesMatching(SigLines(text)[1]) = {}
    /\ RulesMatching(SigLines(text)[2]) = {}
    /\ RulesMatching(SigLines(text)[3]) # {}
    /\ detection = None

\* the possible matches, as <<line, type, rule>> positions, among the first two
\* significant lines
Candidates(t) ==
    UNION { { <<l, ck[1], ck[2]>> : ck \in RulesMatching(SigLines(t)[l]) }
            : l \in 1..Min(2, Len(SigLines(t))) }

\* line first, then type in the order TOC, Lettres_Entente, Annexe, Articles,
\* Signatures, then rule
Before(x, y) ==
    \/ x[1] < y[1]
    \/ x[1] = y[1] /\ x[2] < y[2]
    \/ x[1] = y[1] /\ x[2] = y[2] /\ x[3] <= y[3]

CatalogOrder == <<"TOC", "Lettres_Entente", "Annexe", "Articles", "Signatures">>

\* C10: the first match in the order line, type (catalog order), rule decides
\* the returned type and confidence.
C10_FirstMatchWins ==
    /\ [c \in 1..Len(PATTERNS) |-> PATTERNS[c].type] = CatalogOrder
    /\ dpc = "done" =>
          LET cands == Candidates(text)
          IN IF cands = {} THEN detection = None
             ELSE \E m \in cands :
                     /\ \A o \in cands : Before(m, o)
                     /\ detection = <<CatalogOrder[m[2]],
                                      BaseOf(<<m[2], m[3]>>) - (IF m[1] = 1 THEN 0 ELSE 10),
                                      SigLines(text)[m[1]]>>

\* the first line matches two rules of Lettres_Entente, the second line a rule
\* of TOC, which is earlier in the catalog: the first rule of the first line wins
C10_Witness ==
    /\ dpc = "done"
    /\ Len(SigLines(text)) >= 2
    /\ RulesMatching(SigLines(text)[1]) = {<<2, 1>>, <<2, 2>>}
    /\ RulesMatching(SigLines(text)[2]) = {<<1, 1>>}
    /\ detection = <<"Lettres_Entente", 100, "LETTRE D'ENTENTE NO 4">>

(***************************************************************************)
(* The marker list of find_all_sections.                                   *)
(***************************************************************************)
\* the pages the scan loop has been through
Scanned == 0..(page_num - 1)

MarkerPages == {markers[i].page : i \in 1..Len(markers)}

\* C11: during the scan and when it returns, a scanned page has a marker
\* exactly when detect_section returned a detection for it whose confidence is
\* at least 80; a detection below 80 leaves no marker.
C11_MarkerIffAccepted ==
    pc \in {"scan", "build"} =>
        \A p \in Scanned :
            LET det == detect_section(pages[p + 1], p)
            IN /\ p \in MarkerPages <=> (det # None /\ det[2] >= 80)
               /\ \A i \in 1..Len(markers) :
                     markers[i].page = p =>
                         markers[i] = [type |-> det[1], page |-> p,
                                       confidence |-> det[2], header |-> det[3]]

\* the scan is over; one page was detected at 75 (rule of base 85 on the second
\* line) and has no marker, another page has one
C11_Witness ==
    /\ pc = "build"
    /\ markers # <<>>
    /\ \E p \in Scanned :
          /\ detect_section(pages[p + 1], p) # None
          /\ detect_section(pages[p + 1], p)[2] = 75
          /\ p \notin MarkerPages

C12_Ordered ==
    /\ \A i \in 1..Len(markers) : markers[i].page \in 0..(total_pages - 1)
    /\ \A i, j \in 1..Len(markers) : i < j => markers[i].page < markers[j].page

\* C12: the markers are strictly ascending by page (so at most one per page),
\* every page is in 0..total_pages-1, and once the scan has returned the list
\* is handed on as it is: no later step changes it.
C12_MarkersAscending ==
    /\ []C12_Ordered
    /\ [][pc # "scan" => markers' = markers]_vars

\* build_sections is about to receive three markers or more
C12_Witness ==
    /\ pc = "build"
    /\ Len(markers) >= 3

(***************************************************************************)
(* Failures of the single-document operation.                              *)
(***************************************************************************)
\* the single-document operation is over: process() returned, or an exception
\* left the constructor
SingleEnded == bpc = "single" /\ pc \in {"done", "failed", "raised"}

\* C13: the single-document operation never raises: when it is over the caller
\* holds a result dict, and after a failure this dict has success=False and an
\* error text.
C13_NeverRaises ==
    SingleEnded =>
        /\ pc # "raised"
        /\ pc = "failed" => (~result.success /\ result.error # "")
        /\ pc = "done" => result.success

(***************************************************************************)
(* Batch mode.                                                             *)
(***************************************************************************)
\* the PDF documents of the input directory
InputDocuments ==
    {input_dir.files[i] : i \in {k \in 1..Len(input_dir.files) :
                                    casefold(input_dir.files[k].suffix) = ".pdf"}}

\* the results so far are those of the list entries gone through, in the order
\* of the list, whatever failed
ResultPerListEntry ==
    /\ bpc \in {"loop", "returned"} /\ pdfs # <<>> =>
          Len(results) = Min(pdf_idx, Len(pdfs) + 1) - 1
    /\ \A i \in 1..Len(results) : results[i].input_file = PathStr(pdfs[i])
    /\ bpc = "returned" => Len(results) = Len(pdfs)

\* the logged figures
SummaryAddsUp ==
    bpc = "returned" /\ pdfs # <<>> =>
        /\ summary.processed = Len(results)
        /\ summary.successful = Cardinality({i \in 1..Len(results) : results[i].success})
        /\ summary.failed = Cardinality({i \in 1..Len(results) : ~results[i].success})
        /\ summary.processed = summary.successful + summary.failed

\* C14: whatever fails, batch_process returns exactly one result per input
\* document, in processing order; a failure of one document does not keep the
\* later ones from being processed; processed = successful + failed.
C14_OneResultPerDocument ==
    /\ ResultPerListEntry
    /\ SummaryAddsUp
    /\ bpc = "returned" /\ input_dir.exists =>
          \A f \in InputDocuments :
              Cardinality({i \in 1..Len(results) : results[i].input_file = PathStr(f)}) = 1

\* C20: in a batch, two distinct input documents have distinct output
\* directories, and the counters of a document start from zero: the n-th
\* surviving Section of a type in this document gets number n, as when the
\* document is processed alone.
C20_DocumentsIndependent ==
    /\ \A i, j \in 1..Len(results) :
          (/\ results[i].success
           /\ results[j].success
           /\ results[i].input_file # results[j].input_file)
          => results[i].output_dir # results[j].output_dir
    /\ bpc = "running" /\ pc \in {"split", "done"} =>
          \A k \in 1..Len(planned) :
              planned[k].num =
                  Cardinality({m \in 1..k : planned[m].type = planned[k].type})

(***************************************************************************)
(* Write failures.                                                         *)
(***************************************************************************)
\* process() has returned
Returned == pc \in {"done", "failed"}

\* C15: a write failure skips only the item being written: when process() has
\* returned, whether the report or any artifact failed to be written, a write
\* was attempted for every Section of at least min_pages pages.
C15_WriteFailureLocal ==
    Returned =>
        \A i \in 1..Len(sections) :
            sections[i].end_page - sections[i].start_page + 1 >= min_pages
                => i \in PlannedSecs

(***************************************************************************)
(* Pages whose text cannot be extracted.                                   *)
(***************************************************************************)
\* the document with every unreadable page replaced by a page without text
AsIfEmpty(doc) == [i \in 1..Len(doc) |-> IF doc[i] = Unreadable THEN EmptyPage ELSE doc[i]]

\* the markers of the first n pages of a document given by its page texts
MarkersOfTexts(texts, n) ==
    LET hit(i) == /\ detect_section(texts[i], i - 1) # None
                  /\ detect_section(texts[i], i - 1)[2] >= 80
        idx == SelectSeq([i \in 1..n |-> i], hit)
    IN [k \in 1..Len(idx) |->
           LET det == detect_section(texts[idx[k]], idx[k] - 1)
           IN [type |-> det[1], page |-> idx[k] - 1,
               confidence |-> det[2], header |-> det[3]]]

\* C16: a page whose extraction fails gets no marker, the failure does not end
\* the scan, and the markers collected are those of the same document with an
\* empty page in its place.
C16_ExtractionFailureIsEmptyPage ==
    /\ pc \in {"scan", "build"}
    /\ \A p \in Scanned : pages[p + 1] = Unreadable => p \notin MarkerPages
    /\ markers = MarkersOfTexts(AsIfEmpty(pages), page_num)

\* the scan has returned; an unreadable page lies between two pages that have
\* a marker each
C16_Witness ==
    /\ pc = "build"
    /\ \E p \in Scanned :
          /\ pages[p + 1] = Unreadable
          /\ p - 1 \in MarkerPages
          /\ p + 1 \in MarkerPages

(***************************************************************************)
(* The analysis report.                                                    *)
(***************************************************************************)
\* C17: the report lists every Section of the merged list, dropped or not, in
\* document order under the ordinals 1, 2, ...; sections_found is the number
\* of report entries.
C17_ReportListsEverySection ==
    /\ pc \in {"split", "done"} =>
          /\ Len(report) = Len(sections)
          /\ \A i \in 1..Len(report) :
                /\ report[i].idx = i
                /\ report[i].type = sections[i].type
                /\ report[i].first = sections[i].start_page + 1
                /\ report[i].last = sections[i].end_page + 1
    /\ pc = "done" => result.sections_found = Len(report)

\* process() has returned; the report has two entries or more, one of them for
\* a Section that was dropped as too short
C17_Witness ==
    /\ pc = "done"
    /\ Len(report) >= 2
    /\ \E i \in 1..Len(sections) :
          /\ i \notin PlannedSecs
          /\ report[i].pages < min_pages
    /\ result.files_created < result.sections_found

(***************************************************************************)
(* Section ranges.                                                         *)
(***************************************************************************)
\* every section list produced so far: what build_sections built from the
\* markers, what merge_sections returned, what build_sections returned
ProducedLists ==
    {m_in, sections} \cup {merge_runs[k].ret : k \in 1..Len(merge_runs)}

\* C19: in every section list produced, on the fallback path, on the marker
\* path and after merging, each Section has start_page <= end_page.
C19_StartNotAfterEnd ==
    \A secs \in ProducedLists :
        \A i \in 1..Len(secs) : secs[i].start_page <= secs[i].end_page

(***************************************************************************)
(* The stages of process().                                                *)
(***************************************************************************)
\* the stage process() is in. split_pdf filters, numbers and writes Section by
\* Section: the stretch from create_report to the end of its loop is taken as
\* FILTER_AND_SEQUENCE, and EMIT is reached when split_pdf has returned.
Stage ==
    CASE pc = "scan" -> "SCAN"
      [] pc = "build" /\ markers = <<>> -> "FALLBACK"
      [] pc = "build" /\ markers # <<>> -> "BUILD"
      [] pc \in {"merge", "merge_loop", "merged"} -> "MERGE"
      [] pc \in {"report", "split"} -> "FILTER_AND_SEQUENCE"
      [] pc = "done" -> "EMIT"
      [] pc = "failed" -> "FAILED"
      [] OTHER -> "NOT_STARTED"

\* the moves of the pipeline from one stage to the next; a list of one Section
\* has nothing to merge, so FALLBACK may go on without a call of merge_sections
StageMoves ==
    {<<"NOT_STARTED", "SCAN">>, <<"SCAN", "FALLBACK">>, <<"SCAN", "BUILD">>,
     <<"FALLBACK", "MERGE">>, <<"FALLBACK", "FILTER_AND_SEQUENCE">>,
     <<"BUILD", "MERGE">>, <<"MERGE", "FILTER_AND_SEQUENCE">>,
     <<"FILTER_AND_SEQUENCE", "EMIT">>}

EndsInEmit == Returned => Stage = "EMIT"

\* C18: a run of process() moves through SCAN, FALLBACK or BUILD, MERGE,
\* FILTER_AND_SEQUENCE and EMIT in this order, never back to a stage it has
\* left, and when it has returned it is in EMIT.
C18_LinearPipeline ==
    /\ [][bpc = "single" /\ Stage' # Stage => <<Stage, Stage'>> \in StageMoves]_vars
    /\ []EndsInEmit

(***************************************************************************)
(* merge_sections and the partition.                                       *)
(***************************************************************************)
Ascending(secs) ==
    \A i, j \in 1..Len(secs) : i < j => secs[i].start_page < secs[j].start_page

\* each Section is a non-empty range that starts on the page after the end of
\* the Section before it
Contiguous(secs) ==
    /\ \A i \in 1..Len(secs) : secs[i].start_page <= secs[i].end_page
    /\ \A i \in 2..Len(secs) : secs[i].start_page = secs[i - 1].end_page + 1

IsPartition(secs) == Ascending(secs) /\ PairwiseDisjoint(secs) /\ Contiguous(secs)

\* C21: when the list given to merge_sections is ascending, pairwise disjoint
\* and contiguous, so is the list it returns, and both cover the same pages.
C21_MergePreservesPartition ==
    \A k \in 1..Len(merge_runs) :
        IsPartition(merge_runs[k].arg) =>
            /\ IsPartition(merge_runs[k].ret)
            /\ Covered(merge_runs[k].ret) = Covered(merge_runs[k].arg)

\* a contiguous list of three Sections over five pages or more came back as two
\* Sections: two of them were merged
C21_Witness ==
    /\ Len(merge_runs) >= 1
    /\ IsPartition(merge_runs[1].arg)
    /\ Len(merge_runs[1].arg) = 3
    /\ Len(merge_runs[1].ret) = 2
    /\ Cardinality(Covered(merge_runs[1].arg)) >= 5

(***************************************************************************)
(* The merged list after build_sections.                                   *)
(***************************************************************************)
\* C22: once build_sections has returned, no step of create_report or split_pdf
\* changes the Section list, whatever min_pages is and whether writes fail.
C22_SectionsReadOnly ==
    [][(pc \in {"report", "split"}) => (sections' = sections)]_vars

\* process() has returned over a list of two Sections or more, of which one was
\* dropped and one failed to be written
C22_Witness ==
    /\ pc = "done"
    /\ Len(sections) >= 2
    /\ Len(planned) < Len(sections)
    /\ Len(created) < Len(planned)

(***************************************************************************)
(* The gap merge_sections sees on the lists of build_sections.             *)
(***************************************************************************)
\* C23: on the list build_sections built, every gap merge_sections computes is
\* exactly 1; so with merge_threshold >= 1 the returned list has no two adjacent
\* Sections of one type, and with merge_threshold <= 0 nothing is merged.
C23_GapAlwaysOne ==
    /\ (pc = "merge_loop" /\ next_idx <= Len(m_in)) =>
          m_in[next_idx].start_page - current.end_page = 1
    /\ (Built /\ merge_threshold >= 1) =>
          \A i \in 1..(Len(sections) - 1) : sections[i].type # sections[i + 1].type
    /\ (Built /\ merge_threshold <= 0 /\ markers # <<>>) =>
          /\ sections = m_in
          /\ Len(sections) = Len(markers)

\* with the default threshold two neighbours of one type were merged and a
\* Section of another type follows
C23_Witness ==
    /\ pc = "done"
    /\ merge_threshold = DefaultMergeThreshold
    /\ Len(m_in) = 3
    /\ m_in[1].type = m_in[2].type
    /\ Len(sections) = 2

(***************************************************************************)
(* Failed writes and the result of process().                              *)
(***************************************************************************)
\* the planned files whose write succeeded
IsWritten(entry) == entry.written

WrittenPlanned == SelectSeq(planned, IsWritten)

\* C24: a Section whose write fails still uses up a number of its type;
\* created_files are, in document order, the files of the Sections of at least
\* min_pages pages whose write succeeded; files_created is their number and is
\* at most sections_found.
C24_FailedWriteKeepsNumber ==
    Splitting =>
        /\ \A k \in 1..Len(planned) :
              /\ planned[k].num =
                    Cardinality({m \in 1..k : planned[m].type = planned[k].type})
              /\ sections[planned[k].sec].end_page
                    - sections[planned[k].sec].start_page + 1 >= min_pages
        /\ Len(created) = Len(WrittenPlanned)
        /\ \A k \in 1..Len(created) :
              created[k] = output_dir \o "/" \o WrittenPlanned[k].filename
        /\ \A i \in Visited :
              (sections[i].end_page - sections[i].start_page + 1 >= min_pages)
                  => i \in PlannedSecs
        /\ pc = "done" =>
              /\ result.created_files = created
              /\ result.files_created = Len(result.created_files)
              /\ result.files_created <= result.sections_found

\* process() has returned; the first Section of a type failed to be written,
\* the second of that type was written under number 2 and is the only file
C24_Witness ==
    /\ pc = "done"
    /\ \E a, b \in 1..Len(planned) :
          /\ a < b
          /\ planned[a].type = planned[b].type
          /\ ~planned[a].written /\ planned[a].num = 1
          /\ planned[b].written /\ planned[b].num = 2
    /\ result.files_created = 1

(***************************************************************************)
(* The window: one run at a time, and every run ends.                      *)
(***************************************************************************)
\* C25 as stated: at most one worker thread exists at any time.
C25_AtMostOneThread == Cardinality(LiveThreads) <= 1

\* the step just taken was a call of process_files
ProcessRequested == ran'.code = "process_files"

\* C25, amended: at most one worker thread is in its run, and a second thread
\* exists only beside one that has nothing left to do but return; while a
\* worker is in its run the flag is set and the button disabled; a call of
\* process_files with the flag set opens the warning and changes nothing
\* else; a thread is started only by a step of the main loop that found the
\* flag clear and leaves it set with the button disabled; the flag changes
\* only in steps of the main loop.
C25_OneRunAtATime ==
    /\ [](/\ Cardinality(ActiveThreads) <= 1
          /\ (ActiveThreads # {}) => (processing /\ process_btn = "disabled"))
    /\ [][/\ (ProcessRequested /\ processing) =>
               /\ "warning" \in shown'
               /\ UNCHANGED <<input_path, batch_mode, processing, process_btn, progress,
                              threads, after_queue, mainloop>>
          /\ (Len(threads') > Len(threads)) =>
               /\ ~processing /\ processing' /\ process_btn' = "disabled"
               /\ ran'.thread = "main"
          /\ (processing' # processing) => (ran'.thread = "main")]_vars

\* a call of process_files was turned away with the warning while the second
\* worker was in its run and the first had not yet returned
C25_Witness ==
    /\ "warning" \in shown
    /\ Len(threads) = 2
    /\ threads[1].pc = "handed"
    /\ 2 \in ActiveThreads

\* flag cleared, button enabled, progress bar stopped
RunEnded == ~processing /\ process_btn = "normal" /\ ~progress

\* C26: while the main loop runs, every run that was started ends with the
\* flag cleared, the button enabled and the progress bar stopped, however the
\* worker's run went; and then process_files starts a run again.
C26_RunEventuallyEnds ==
    /\ processing ~> (RunEnded \/ ~mainloop)
    /\ []((RunEnded /\ mainloop /\ shown = {} /\ PathExists(input_path)
             /\ Len(threads) < MaxRuns) => ENABLED ProcessAccept)

\* a run whose worker raised has ended, a second run was started after it and
\* has ended as well, having returned success False
C26_Witness ==
    /\ Len(threads) = 2
    /\ threads[1].outcome = "raised"
    /\ threads[2].outcome = "failed"
    /\ threads[2].pc = "exited"
    /\ after_queue = <<>>
    /\ RunEnded

====
